---- MODULE Spec2Model ----
(***************************************************************************)
(* Model of the meter labelling tool: the label store (annotations.db),    *)
(* the class distribution tracker, the target-distribution selector, the   *)
(* fetch-with-retry loop of load_new_image, the page handlers (Load, Skip, *)
(* Submit, add_detection, remove_detection, the canvas), the OBB geometry  *)
(* of utils/obb.py and a second annotator's session on the same store.     *)
(*                                                                         *)
(* Spec is one annotator's session, who leaves the readings at their       *)
(* default; SessionTypedSpec adds typed readings, RetrySpec the history of *)
(* failed downloads, TwoSpec the second session; SelSpec, ObbSpec and      *)
(* TrackerSpec apply the selector, the geometry and the tracker alone.     *)
(*                                                                         *)
(* Coordinates are exact: a pixel value is an integer over Unit, a         *)
(* normalized coordinate is a fraction << numerator, denominator >>.       *)
(*                                                                         *)
(* Optional values are sequences of length at most one: <<>> is Python's   *)
(* None and <<x>> is the value x.                                          *)
(*                                                                         *)
(* Probabilities are kept exact: the target ratios 0.70 / 0.30 are the     *)
(* integers 70 / 30 (percent) and a random draw r in [0, 1) is the         *)
(* fraction k / RandSteps.                                                 *)
(***************************************************************************)
EXTENDS Integers, Sequences, FiniteSets, TLC

\* ------------------------------------------------------------------ bounds
\* longest detection list of one image in the session
MaxDetections == 2
\* canvas_key stops growing here (it counts loads, adds and removes)
MaxCanvasKey == 4
\* most annotations the label store holds
MaxStore == 4
\* a draw of random.random() is k / RandSteps, k in 0 .. RandSteps - 1
RandSteps == 10
\* largest per-class count handed to the selector when it is checked alone
MaxCount == 7
\* largest scaleX / scaleY of a rectangle handed to the geometry
MaxScale == 2

\* ------------------------------------------------------- program constants
\* pages/1_Meter_Labelling.py:170
max_attempts == 5
\* utils/database.py:311, list(excluded_ids)[:10000]; scaled down from 10000
\* so that a client can hold more annotated ids than the cap
ExclusionCap == 2

None == <<>>
Some(x) == <<x>>

Min(a, b) == IF a < b THEN a ELSE b

\* env_settings.py:32-35, in percent, with the dict's key order
TARGET_DISTRIBUTION == [water |-> 70, electricity |-> 30]
UtilityTypes == <<"water", "electricity">>

\* env_settings.py:14-19, the first two QA clients
SOURCE_CLIENTS == <<"Huurkor", "TopCharge">>
ClientNames == {SOURCE_CLIENTS[i] : i \in 1..Len(SOURCE_CLIENTS)}

\* One row of meter_readings LEFT JOIN meter_history of a source database:
\* has_file is the conjunction of the file conditions of the WHERE clause
\* (site, reading_date and file_name present, no NOFILE); a meter without a
\* history row has utility_type "NULL".
Row(client, reading_id, utility_type, has_file) ==
  [client |-> client, reading_id |-> reading_id, utility_type |-> utility_type,
   has_file |-> has_file]

\* A source whose first client holds more readings than the exclusion cap
LargeSource ==
  { Row("Huurkor", 1, "cold_water", TRUE),
    Row("Huurkor", 2, "electricity", TRUE),
    Row("Huurkor", 3, "hot_water", TRUE),
    Row("TopCharge", 1, "electricity", TRUE),
    Row("TopCharge", 4, "cold_water", TRUE) }

\* A source that a session can label completely; it also holds a reading of
\* a meter without history and a reading without an image file
SmallSource ==
  { Row("Huurkor", 1, "cold_water", TRUE),
    Row("TopCharge", 1, "electricity", TRUE),
    Row("TopCharge", 2, "NULL", TRUE),
    Row("TopCharge", 3, "cold_water", FALSE) }

SourceChoices == {LargeSource, SmallSource}

VARIABLES
  source,            \* rows of the source databases (read-only)
  store,             \* rows of the annotations table, in insertion order
  current_reading,   \* st.session_state.current_reading
  current_image,     \* st.session_state.current_image (the record it shows)
  current_client,    \* st.session_state.current_client
  image_load_error,  \* st.session_state.image_load_error
  detections,        \* st.session_state.detections
  canvas_key,        \* st.session_state.canvas_key
  notice,            \* what the submit handler reported in this run
  validation_errors, \* the submit handler's list validation_errors, as shown
  pc,                \* "idle", "loading" inside load_new_image's loop, or
                     \* "rerun" between st.rerun() of the add and remove
                     \* buttons and the script run it starts
  attempt,           \* iterations of the retry loop started in this call
  failed_readings,   \* load_new_image's local list failed_readings
  result,            \* <<>> before the first fetch of a call, else <<value
                     \* returned by the latest fetch_random_reading()>>
  target_utility,    \* target class of the latest select_target_utility_type
  n_downloads,       \* image downloads attempted in this call
  failed_session,    \* <<>> when the session keeps no history, or <<the
                     \* (reading_id, client) whose download failed so far>>
  sel_in,            \* counts and draw handed to the selector checked alone
  obb_in,            \* rectangle and canvas size handed to the geometry
                     \* functions checked alone
  obb_out,           \* <<>>, or <<value returned by calculate_obb_from_fabric_object>>
  valid_out,         \* <<>>, or <<value returned by validate_bounding_box>>
  other_reading,     \* second annotator's session: <<>>, or <<(reading_id,
                     \* client) its page shows>>
  both_offered,      \* (reading_id, client) that both sessions showed at one
                     \* time while it had no annotation
  dist_out,          \* <<>>, or <<the latest call of get_class_distribution:
                     \* the rows it read and the value it returned>>
  dist_prev          \* <<>>, or <<the call before that one>>

vars == << source, store, current_reading, current_image, current_client,
           image_load_error, detections, canvas_key, notice, validation_errors,
           pc, attempt, failed_readings, result, target_utility, n_downloads,
           failed_session, sel_in, obb_in, obb_out, valid_out, other_reading,
           both_offered, dist_out, dist_prev >>

\* inputs and outputs of the functions that are checked on their own
PureIO == << sel_in, obb_in, obb_out, valid_out, dist_out, dist_prev >>

\* ------------------------------------------------ class distribution tracker
\* utils/database.py:65-70, the inner loop over one row's detections
RECURSIVE CountDetections(_, _, _)
CountDetections(dets, i, acc) ==
  IF i > Len(dets) THEN acc
  ELSE LET class_label == dets[i].class_label
       IN CountDetections(dets, i + 1,
            IF class_label = 0 THEN [acc EXCEPT !.water_count = @ + 1]
            ELSE IF class_label = 1 THEN [acc EXCEPT !.electricity_count = @ + 1]
            ELSE acc)

\* the loop over the rows without the branch for an empty detection list
RECURSIVE CountRows_SkipsEmpty(_, _, _)
CountRows_SkipsEmpty(rows, i, acc) ==
  IF i > Len(rows) THEN acc
  ELSE CountRows_SkipsEmpty(rows, i + 1, CountDetections(rows[i].detections, 1, acc))

\* utils/database.py:56-70, the three counters after the loop over the rows
RECURSIVE CountRows(_, _, _)
CountRows(rows, i, acc) ==
  IF i > Len(rows) THEN acc
  ELSE CountRows(rows, i + 1,
         IF rows[i].detections = <<>>
         THEN [acc EXCEPT !.no_meter_count = @ + 1]
         ELSE CountDetections(rows[i].detections, 1, acc))

CountClasses(rows) ==
  CountRows(rows, 1, [water_count |-> 0, electricity_count |-> 0, no_meter_count |-> 0])

\* utils/models/annotation.py:180-186: the model declares cold_water_count,
\* hot_water_count, electricity_count and no_meter_count, each defaulting to
\* 0; a keyword that is not a declared field is not stored.
ClassDistributionFields ==
  {"cold_water_count", "hot_water_count", "electricity_count", "no_meter_count"}

ClassDistribution(kwargs) ==
  [f \in ClassDistributionFields |-> IF f \in DOMAIN kwargs THEN kwargs[f] ELSE 0]

\* the counters of the row fetched last only, instead of all the rows
get_class_distribution_LastRow(rows) ==
  ClassDistribution(CountClasses(IF rows = << >> THEN rows ELSE << rows[Len(rows)] >>))

\* utils/database.py:46-76
get_class_distribution(rows) == ClassDistribution(CountClasses(rows))

\* utils/models/annotation.py:188-196
total_images(d) ==
  d.cold_water_count + d.hot_water_count + d.electricity_count + d.no_meter_count

\* utils/models/annotation.py:198-201
total_detections(d) == d.cold_water_count + d.hot_water_count + d.electricity_count

\* -------------------------------------------- target-distribution selector
\* the sampling with r <= TARGET_DISTRIBUTION["water"]
SampleTargets_AtMost(k) ==
  IF k * 100 <= TARGET_DISTRIBUTION.water * RandSteps THEN "water" ELSE "electricity"

\* utils/database.py:191-195 and 214-218: r < TARGET_DISTRIBUTION["water"]
SampleTargets(k) ==
  IF k * 100 < TARGET_DISTRIBUTION.water * RandSteps THEN "water" ELSE "electricity"

\* Deficit with the subtraction turned round: current proportion minus target
Deficit_Reversed(water_count, electricity_count, utility_type) ==
  LET total == water_count + electricity_count
      count == IF utility_type = "water" THEN water_count ELSE electricity_count
  IN 100 * count - TARGET_DISTRIBUTION[utility_type] * total

\* utils/database.py:198-207, times 100 * total: target ratio minus current
\* proportion of one class
Deficit(water_count, electricity_count, utility_type) ==
  LET total == water_count + electricity_count
      count == IF utility_type = "water" THEN water_count ELSE electricity_count
  IN TARGET_DISTRIBUTION[utility_type] * total - 100 * count

\* utils/database.py:210
PositiveDeficits(water_count, electricity_count) ==
  SelectSeq(UtilityTypes, LAMBDA u : Deficit(water_count, electricity_count, u) > 0)

RECURSIVE SumDeficits(_, _, _, _)
SumDeficits(water_count, electricity_count, keys, i) ==
  IF i > Len(keys) THEN 0
  ELSE Deficit(water_count, electricity_count, keys[i])
       + SumDeficits(water_count, electricity_count, keys, i + 1)

\* utils/database.py:223-230: r = k / RandSteps times total_deficit, compared
\* with the running sum; the first key is the fallback
RECURSIVE WeightedPick(_, _, _, _, _, _, _)
WeightedPick(water_count, electricity_count, keys, i, cumulative, k, total_deficit) ==
  IF i > Len(keys) THEN keys[1]
  ELSE LET c == cumulative + Deficit(water_count, electricity_count, keys[i])
       IN IF k * total_deficit <= c * RandSteps THEN keys[i]
          ELSE WeightedPick(water_count, electricity_count, keys, i + 1, c, k, total_deficit)

\* utils/database.py:181-230; k is the draw of random.random()
select_target_utility_type(water_count, electricity_count, k) ==
  LET total == water_count + electricity_count
      positive_deficits == PositiveDeficits(water_count, electricity_count)
  IN IF total = 0 THEN SampleTargets(k)
     ELSE IF positive_deficits = <<>> THEN SampleTargets(k)
     ELSE WeightedPick(water_count, electricity_count, positive_deficits, 1, 0, k,
                       SumDeficits(water_count, electricity_count, positive_deficits, 1))

\* ------------------------------------------------------- label store reads
\* utils/database.py:162-178: client -> set of annotated reading ids, with a
\* key only for the clients that have a row
get_all_annotated_reading_ids(rows) ==
  [c \in {rows[i].source_client : i \in 1..Len(rows)} |->
     {rows[i].source_reading_id : i \in {j \in 1..Len(rows) : rows[j].source_client = c}}]

\* dict.get(key, default)
DictGet(d, key, default) == IF key \in DOMAIN d THEN d[key] ELSE default

\* utils/database.py:311, list(excluded_ids)[:10000]: the ids that reach the
\* NOT IN clause; which ones a set lists first is not fixed by the language,
\* so every choice of that many ids is possible
CappedIds(excluded_ids) ==
  {kept \in SUBSET excluded_ids :
     Cardinality(kept) = Min(ExclusionCap, Cardinality(excluded_ids))}

\* utils/database.py:316-323, utility_type is "water", "electricity" or None
UtilityFilter(utility_type) ==
  IF utility_type = Some("water") THEN {"cold_water", "hot_water"}
  ELSE IF utility_type = Some("electricity") THEN {"electricity"}
  ELSE {"cold_water", "hot_water", "electricity"}

\* utils/database.py:353-357
MappedUtility(source_utility) ==
  IF source_utility \in {"cold_water", "hot_water"} THEN "water" ELSE source_utility

\* utils/database.py:290-366: the SourceReadings the query can return (ORDER
\* BY RAND() LIMIT 1 picks any matching row); the empty set is a None return.
\* kept is the part of excluded_ids that reaches the query.
fetch_reading_from_client(client, utility_type, kept) ==
  {[reading_id |-> row.reading_id, utility_type |-> MappedUtility(row.utility_type)] :
     row \in {r \in source :
                /\ r.client = client
                /\ r.has_file
                /\ r.utility_type \in UtilityFilter(utility_type)
                /\ r.reading_id \notin kept}}

\* random.shuffle(clients_to_try): every order of SOURCE_CLIENTS
ShuffledClients ==
  LET n == Len(SOURCE_CLIENTS)
  IN {[i \in 1..n |-> SOURCE_CLIENTS[p[i]]] :
        p \in {q \in [1..n -> 1..n] : \A a, b \in 1..n : q[a] = q[b] => a = b}}

\* one choice, per client, of the excluded ids that reach the query
KeptChoices(annotated_by_client) ==
  LET capped == [c \in ClientNames |-> CappedIds(DictGet(annotated_by_client, c, {}))]
  IN {kept \in [ClientNames -> UNION {capped[c] : c \in ClientNames}] :
        \A c \in ClientNames : kept[c] \in capped[c]}

\* utils/database.py:262-272 and 275-285: scan the clients in order, the
\* first client whose query returns a row wins; the empty set if none does
ScanClients(clients_to_try, utility_type, kept) ==
  LET hits == {i \in 1..Len(clients_to_try) :
                 fetch_reading_from_client(clients_to_try[i], utility_type,
                                           kept[clients_to_try[i]]) # {}}
  IN IF hits = {} THEN {}
     ELSE LET first == CHOOSE i \in hits : \A j \in hits : i <= j
          IN {<< reading, clients_to_try[first] >> :
                reading \in fetch_reading_from_client(clients_to_try[first], utility_type,
                                                      kept[clients_to_try[first]])}

\* fetch_random_reading with the unfiltered scan made first
fetch_random_reading_AnyFirst(target, clients_to_try, kept) ==
  LET by_target == ScanClients(clients_to_try, Some(target), kept)
      any_type == ScanClients(clients_to_try, None, kept)
  IN IF any_type # {} THEN {Some(x) : x \in any_type}
     ELSE IF by_target # {} THEN {Some(x) : x \in by_target}
     ELSE {None}

\* fetch_random_reading without the second, unfiltered scan
fetch_random_reading_NoFallback(target, clients_to_try, kept) ==
  LET by_target == ScanClients(clients_to_try, Some(target), kept)
  IN IF by_target # {} THEN {Some(x) : x \in by_target}
     ELSE {None}

\* utils/database.py:242-287 after the target class, the shuffle and the ids
\* that reach the queries are fixed: the (reading, client_name) pairs the call
\* can return, or None
fetch_random_reading(target, clients_to_try, kept) ==
  LET by_target == ScanClients(clients_to_try, Some(target), kept)
      any_type == ScanClients(clients_to_try, None, kept)
  IN IF by_target # {} THEN {Some(x) : x \in by_target}
     ELSE IF any_type # {} THEN {Some(x) : x \in any_type}
     ELSE {None}

\* (client, reading_id) pairs that have a row in the label store
AnnotatedPairs(rows) ==
  {<< rows[i].source_reading_id, rows[i].source_client >> : i \in 1..Len(rows)}

\* ------------------------------------------------------ geometry (utils/obb.py)
\* pages/1_Meter_Labelling.py:36-38
CANVAS_WIDTH == 800
CANVAS_HEIGHT == 600
DEFAULT_RECT_SIZE == 150

Max(a, b) == IF a > b THEN a ELSE b

\* utils/obb.py:39-41: math.cos and math.sin of math.radians(angle), as
\* integers over TrigDen (four decimals: cos 45 = sin 45 = 0.7071)
TrigDen == 10000

Cos(angle) ==
  CASE angle = 0 -> TrigDen
    [] angle = 45 -> 7071
    [] angle = 90 -> 0
    [] angle = 180 -> -TrigDen
    [] angle = 270 -> 0
    [] angle = 360 -> TrigDen

Sin(angle) ==
  CASE angle = 0 -> 0
    [] angle = 45 -> 7071
    [] angle = 90 -> TrigDen
    [] angle = 180 -> 0
    [] angle = 270 -> -TrigDen
    [] angle = 360 -> 0

\* Pixel coordinates are kept exact as integers over Unit: half_w = width *
\* scale_x / 2 times cos_a = c / TrigDen is (width * scale_x * c) / Unit
Unit == 2 * TrigDen

\* corners_local with clockwise order: top-left, top-right, bottom-right,
\* bottom-left
CornersLocal_Clockwise == << << -1, -1 >>, << 1, -1 >>, << 1, 1 >>, << -1, 1 >> >>

\* utils/obb.py:52-57, corners_local as the signs of (half_w, half_h):
\* top-left, bottom-left, bottom-right, top-right
CornersLocal == << << -1, -1 >>, << -1, 1 >>, << 1, 1 >>, << 1, -1 >> >>

\* utils/obb.py:30-68: the list corners, each (x, y) over Unit
PixelCorners(left, top, width, height, angle, scale_x, scale_y) ==
  LET actual_width == width * scale_x
      actual_height == height * scale_y
      cos_a == Cos(angle)
      sin_a == Sin(angle)
      center_x == left * Unit + actual_width * cos_a - actual_height * sin_a
      center_y == top * Unit + actual_width * sin_a + actual_height * cos_a
  IN [i \in 1..4 |->
        LET lx == CornersLocal[i][1] * actual_width
            ly == CornersLocal[i][2] * actual_height
            rx == lx * cos_a - ly * sin_a
            ry == lx * sin_a + ly * cos_a
        IN << center_x + rx, center_y + ry >>]

\* the division by the canvas size without the clamp
Normalize_NoClamp(v, size) == << v, Unit * size >>

\* utils/obb.py:73-74, max(0.0, min(1.0, x / canvas_width)): the fraction
\* << numerator, denominator >> of a coordinate v over Unit
Normalize(v, size) ==
  LET den == Unit * size
      smaller == IF v < den THEN v ELSE den
  IN << IF smaller > 0 THEN smaller ELSE 0, den >>

\* utils/obb.py:6-86
calculate_obb_from_canvas(left, top, width, height, angle, scale_x, scale_y, canvas_width, canvas_height) ==
  LET corners == PixelCorners(left, top, width, height, angle, scale_x, scale_y)
      nx(i) == Normalize(corners[i][1], canvas_width)
      ny(i) == Normalize(corners[i][2], canvas_height)
  IN [x1 |-> nx(1), y1 |-> ny(1), x2 |-> nx(2), y2 |-> ny(2),
      x3 |-> nx(3), y3 |-> ny(3), x4 |-> nx(4), y4 |-> ny(4)]

\* calculate_obb_from_fabric_object reading neither scaleX nor scaleY
calculate_obb_from_fabric_object_NoScale(obj, canvas_width, canvas_height) ==
  calculate_obb_from_canvas(DictGet(obj, "left", 0), DictGet(obj, "top", 0),
                            DictGet(obj, "width", 0), DictGet(obj, "height", 0),
                            DictGet(obj, "angle", 0), 1, 1,
                            canvas_width, canvas_height)

\* utils/obb.py:89-110
calculate_obb_from_fabric_object(obj, canvas_width, canvas_height) ==
  calculate_obb_from_canvas(DictGet(obj, "left", 0), DictGet(obj, "top", 0),
                            DictGet(obj, "width", 0), DictGet(obj, "height", 0),
                            DictGet(obj, "angle", 0), DictGet(obj, "scaleX", 1),
                            DictGet(obj, "scaleY", 1),
                            canvas_width, canvas_height)

\* A rectangle of the canvas JSON with the seven fields the geometry reads
Rect(left, top, width, height, angle, scaleX, scaleY) ==
  [left |-> left, top |-> top, width |-> width, height |-> height,
   angle |-> angle, scaleX |-> scaleX, scaleY |-> scaleY]

\* The minimum pixel threshold of validate_bounding_box
MIN_BOX_SIZE == 10

\* validate_bounding_box accepting a box whose size equals the threshold
validate_bounding_box_AtThreshold(rect, canvas_width, canvas_height) ==
  LET effective_width == DictGet(rect, "width", 0) * DictGet(rect, "scaleX", 1)
      effective_height == DictGet(rect, "height", 0) * DictGet(rect, "scaleY", 1)
      corners == PixelCorners(DictGet(rect, "left", 0), DictGet(rect, "top", 0),
                              DictGet(rect, "width", 0), DictGet(rect, "height", 0),
                              DictGet(rect, "angle", 0), DictGet(rect, "scaleX", 1),
                              DictGet(rect, "scaleY", 1))
      center_x2 == corners[1][1] + corners[3][1]
      center_y2 == corners[1][2] + corners[3][2]
      obb == calculate_obb_from_fabric_object(rect, canvas_width, canvas_height)
      xs == {obb.x1, obb.x2, obb.x3, obb.x4}
      ys == {obb.y1, obb.y2, obb.y3, obb.y4}
      OnOneEdge(cs) == \/ \A c \in cs : c[1] = 0
                       \/ \A c \in cs : c[1] = c[2]
  IN IF effective_width < MIN_BOX_SIZE
       THEN << FALSE, "Box is too narrow" >>
     ELSE IF effective_height < MIN_BOX_SIZE
       THEN << FALSE, "Box is too short" >>
     ELSE IF \/ center_x2 < 0 \/ center_x2 > 2 * Unit * canvas_width
             \/ center_y2 < 0 \/ center_y2 > 2 * Unit * canvas_height
       THEN << FALSE, "Box center is outside the image" >>
     ELSE IF OnOneEdge(xs) \/ OnOneEdge(ys)
       THEN << FALSE, "Box is outside the image" >>
     ELSE << TRUE, "" >>

\* validateOBB of the design (the page imports validate_bounding_box from
\* utils.obb): the effective width and height each exceed the minimum pixel
\* threshold, the center lies within the canvas, and the four clamped
\* corners do not all lie on one edge; otherwise the reason of the first
\* condition that fails. center_x2 and center_y2 are twice the center.
validate_bounding_box(rect, canvas_width, canvas_height) ==
  LET effective_width == DictGet(rect, "width", 0) * DictGet(rect, "scaleX", 1)
      effective_height == DictGet(rect, "height", 0) * DictGet(rect, "scaleY", 1)
      corners == PixelCorners(DictGet(rect, "left", 0), DictGet(rect, "top", 0),
                              DictGet(rect, "width", 0), DictGet(rect, "height", 0),
                              DictGet(rect, "angle", 0), DictGet(rect, "scaleX", 1),
                              DictGet(rect, "scaleY", 1))
      center_x2 == corners[1][1] + corners[3][1]
      center_y2 == corners[1][2] + corners[3][2]
      obb == calculate_obb_from_fabric_object(rect, canvas_width, canvas_height)
      xs == {obb.x1, obb.x2, obb.x3, obb.x4}
      ys == {obb.y1, obb.y2, obb.y3, obb.y4}
      OnOneEdge(cs) == \/ \A c \in cs : c[1] = 0
                       \/ \A c \in cs : c[1] = c[2]
  IN IF effective_width <= MIN_BOX_SIZE
       THEN << FALSE, "Box is too narrow" >>
     ELSE IF effective_height <= MIN_BOX_SIZE
       THEN << FALSE, "Box is too short" >>
     ELSE IF \/ center_x2 < 0 \/ center_x2 > 2 * Unit * canvas_width
             \/ center_y2 < 0 \/ center_y2 > 2 * Unit * canvas_height
       THEN << FALSE, "Box center is outside the image" >>
     ELSE IF OnOneEdge(xs) \/ OnOneEdge(ys)
       THEN << FALSE, "Box is outside the image" >>
     ELSE << TRUE, "" >>

\* the rectangle and the canvas handed over while the geometry is not checked
ObbIdle ==
  [rect |-> Rect(0, 0, 0, 0, 0, 1, 1),
   canvas_width |-> CANVAS_WIDTH, canvas_height |-> CANVAS_HEIGHT]

\* ------------------------------------------------------------ initial state
\* Label stores left by earlier sessions: the first n of these rows that the
\* source holds, each annotated once
StoredRow(source_client, source_reading_id, dets, annotated_by) ==
  [source_client |-> source_client, source_reading_id |-> source_reading_id,
   detections |-> dets, annotated_by |-> annotated_by]

\* utils/models/annotation.py:83-96, a detection as to_dict stores it
Detection(class_label, obb, annotator_reading) ==
  [class_label |-> class_label, obb |-> obb, annotator_reading |-> annotator_reading]

\* the box of a stored detection that was left where add_detection put it
DefaultObb ==
  calculate_obb_from_fabric_object(
    Rect((CANVAS_WIDTH - DEFAULT_RECT_SIZE) \div 2, (CANVAS_HEIGHT - DEFAULT_RECT_SIZE) \div 2,
         DEFAULT_RECT_SIZE, DEFAULT_RECT_SIZE, 0, 1, 1),
    CANVAS_WIDTH, CANVAS_HEIGHT)

LegacyRows ==
  << StoredRow("Huurkor", 1, << Detection(0, DefaultObb, Some(0)) >>, "annotator_0"),
     StoredRow("TopCharge", 1, << Detection(1, DefaultObb, Some(0)) >>, "annotator_0"),
     StoredRow("Huurkor", 2, << Detection(1, DefaultObb, Some(0)) >>, "annotator_0"),
     StoredRow("Huurkor", 3, << >>, "annotator_0") >>

InSource(rows, annotation) ==
  \E r \in rows : /\ r.client = annotation.source_client
                  /\ r.reading_id = annotation.source_reading_id
                  /\ r.has_file

InitStores(rows) ==
  LET legacy == SelectSeq(LegacyRows, LAMBDA a : InSource(rows, a))
  IN {SubSeq(legacy, 1, n) : n \in 0..Len(legacy)}

SelIdle == [water_count |-> 0, electricity_count |-> 0, k |-> 0]

\* pages/1_Meter_Labelling.py:145-157
SessionFields ==
  /\ current_reading = None
  /\ current_image = None
  /\ current_client = None
  /\ image_load_error = None
  /\ detections = << >>
  /\ canvas_key = 0
  /\ notice = ""
  /\ validation_errors = << >>
  /\ pc = "idle"
  /\ attempt = 0
  /\ failed_readings = {}
  /\ result = << >>
  /\ target_utility = None
  /\ n_downloads = 0

SessionInit == SessionFields /\ failed_session = None

Init ==
  /\ source \in SourceChoices
  /\ store \in InitStores(source)
  /\ SessionInit
  /\ sel_in = SelIdle
  /\ obb_in = ObbIdle
  /\ obb_out = None
  /\ valid_out = None
  /\ other_reading = None
  /\ both_offered = {}
  /\ dist_out = None
  /\ dist_prev = None

\* the reset at the head of load_new_image without the line for current_client
ResetForLoad_KeepsClient ==
  /\ canvas_key < MaxCanvasKey
  /\ image_load_error' = None
  /\ current_image' = None
  /\ current_reading' = None
  /\ current_client' = current_client
  /\ detections' = << >>
  /\ canvas_key' = canvas_key + 1
  /\ failed_readings' = {}
  /\ attempt' = 0
  /\ n_downloads' = 0
  /\ result' = << >>
  /\ pc' = "loading"

\* ------------------------------------------------------------ load_new_image
\* pages/1_Meter_Labelling.py:162-171: the resets before the retry loop
ResetForLoad ==
  /\ canvas_key < MaxCanvasKey
  /\ image_load_error' = None
  /\ current_image' = None
  /\ current_reading' = None
  /\ current_client' = None
  /\ detections' = << >>
  /\ canvas_key' = canvas_key + 1
  /\ failed_readings' = {}
  /\ attempt' = 0
  /\ n_downloads' = 0
  /\ result' = << >>
  /\ pc' = "loading"

\* pages/1_Meter_Labelling.py:270-271, the Load New Image button
LoadNewImage ==
  /\ pc = "idle"
  /\ ResetForLoad
  /\ notice' = ""
  /\ validation_errors' = << >>
  /\ UNCHANGED << source, store, target_utility, failed_session, PureIO, other_reading, both_offered >>

\* utils/database.py:252-260: one call of fetch_random_reading() on the rows
\* of the label store: the pairs << target class, return value >> it can
\* produce over every draw, every shuffle and every capped id list.
\* The selector reads water_count and electricity_count, the keywords
\* get_class_distribution passes for the counters of its loop.
FetchCalls(rows) ==
  LET counts == CountClasses(rows)
      targets == {select_target_utility_type(counts.water_count, counts.electricity_count, k) :
                    k \in 0..(RandSteps - 1)}
      keptChoices == KeptChoices(get_all_annotated_reading_ids(rows))
  IN UNION {{<< target, ret >> : ret \in fetch_random_reading(target, clients_to_try, kept)} :
              target \in targets, clients_to_try \in ShuffledClients, kept \in keptChoices}

\* (reading_id, client_name) of a returned (reading, client_name)
Key(x) == << x[1].reading_id, x[2] >>

\* the loop bound off by one
InLoop_OneMore == pc = "loading" /\ attempt <= max_attempts

\* pages/1_Meter_Labelling.py:173, for _ in range(max_attempts)
InLoop == pc = "loading" /\ attempt < max_attempts

LoopFrame ==
  UNCHANGED << source, store, detections, canvas_key, notice, validation_errors, PureIO,
               other_reading >>

\* LoadExhausted with continue in place of the error and the return
LoadExhausted_Continues ==
  /\ InLoop
  /\ \E call \in FetchCalls(store) :
       /\ call[2] = None
       /\ target_utility' = Some(call[1])
       /\ result' = Some(call[2])
  /\ attempt' = attempt + 1
  /\ UNCHANGED << current_reading, current_image, current_client, failed_readings,
                  n_downloads, failed_session, image_load_error, pc, both_offered >>
  /\ LoopFrame

\* pages/1_Meter_Labelling.py:174-178: the selector returned None
LoadExhausted ==
  /\ InLoop
  /\ \E call \in FetchCalls(store) :
       /\ call[2] = None
       /\ target_utility' = Some(call[1])
       /\ result' = Some(call[2])
  /\ attempt' = attempt + 1
  /\ image_load_error' = Some("No more images available to annotate.")
  /\ pc' = "idle"
  /\ UNCHANGED << current_reading, current_image, current_client, failed_readings,
                  n_downloads, failed_session, both_offered >>
  /\ LoopFrame

\* LoadSkipFailed without the membership test: the failed candidate is
\* downloaded once more and fails again
LoadSkipFailed_Retries ==
  /\ InLoop
  /\ \E call \in FetchCalls(store) :
       /\ call[2] # None
       /\ Key(call[2][1]) \in failed_readings
       /\ target_utility' = Some(call[1])
       /\ result' = Some(call[2])
  /\ attempt' = attempt + 1
  /\ n_downloads' = n_downloads + 1
  /\ UNCHANGED << current_reading, current_image, current_client, image_load_error,
                  failed_readings, failed_session, pc, both_offered >>
  /\ LoopFrame

\* pages/1_Meter_Labelling.py:183-184: the candidate already failed in this call
LoadSkipFailed ==
  /\ InLoop
  /\ \E call \in FetchCalls(store) :
       /\ call[2] # None
       /\ Key(call[2][1]) \in failed_readings
       /\ target_utility' = Some(call[1])
       /\ result' = Some(call[2])
  /\ attempt' = attempt + 1
  /\ UNCHANGED << current_reading, current_image, current_client, image_load_error,
                  failed_readings, n_downloads, failed_session, pc, both_offered >>
  /\ LoopFrame

\* pages/1_Meter_Labelling.py:187-201: the download and the decoding succeed;
\* the function returns and its locals are gone
LoadDownloadOk ==
  /\ InLoop
  /\ \E call \in FetchCalls(store) :
       /\ call[2] # None
       /\ Key(call[2][1]) \notin failed_readings
       /\ target_utility' = Some(call[1])
       /\ result' = Some(call[2])
       /\ current_reading' = Some(call[2][1][1])
       /\ current_image' = Some(Key(call[2][1]))
       /\ current_client' = Some(call[2][1][2])
       /\ both_offered' = IF other_reading = Some(Key(call[2][1]))
                          THEN both_offered \cup {Key(call[2][1])}
                          ELSE both_offered
  /\ attempt' = 0
  /\ failed_readings' = {}
  /\ n_downloads' = 0
  /\ pc' = "idle"
  /\ UNCHANGED << image_load_error, failed_session >>
  /\ LoopFrame

\* pages/1_Meter_Labelling.py:203-205: the download or the decoding raises
LoadDownloadFail ==
  /\ InLoop
  /\ \E call \in FetchCalls(store) :
       /\ call[2] # None
       /\ Key(call[2][1]) \notin failed_readings
       /\ target_utility' = Some(call[1])
       /\ result' = Some(call[2])
       /\ failed_readings' = failed_readings \cup {Key(call[2][1])}
       /\ failed_session' = IF failed_session = None THEN None
                            ELSE Some(failed_session[1] \cup {Key(call[2][1])})
  /\ attempt' = attempt + 1
  /\ n_downloads' = n_downloads + 1
  /\ UNCHANGED << current_reading, current_image, current_client, image_load_error, pc,
                  both_offered >>
  /\ LoopFrame

\* pages/1_Meter_Labelling.py:207-209: the loop ran max_attempts times
LoadGiveUp ==
  /\ pc = "loading"
  /\ attempt = max_attempts
  /\ image_load_error' = Some("Failed to load image after 5 attempts.")
  /\ pc' = "idle"
  /\ UNCHANGED << current_reading, current_image, current_client, failed_readings,
                  attempt, result, target_utility, n_downloads, failed_session,
                  both_offered >>
  /\ LoopFrame

\* ------------------------------------------------------------ page handlers
LoadLocals == << attempt, failed_readings, result, target_utility, n_downloads,
                 failed_session >>

\* pages/1_Meter_Labelling.py:277: the annotation interface is drawn
ImageShown == current_reading # None /\ current_image # None

\* the size of the image on the canvas: image.thumbnail fits it into
\* CANVAS_WIDTH x CANVAS_HEIGHT (pages/1_Meter_Labelling.py:196, 282)
img_width == CANVAS_WIDTH
img_height == CANVAS_HEIGHT

\* pages/1_Meter_Labelling.py:226-244, new_rect for the detection_index
NewRect(detection_index) ==
  LET offset == detection_index * 20
  IN Rect((img_width - DEFAULT_RECT_SIZE) \div 2 + offset,
          (img_height - DEFAULT_RECT_SIZE) \div 2 + offset,
          DEFAULT_RECT_SIZE, DEFAULT_RECT_SIZE, 0, 1, 1)

\* add_detection putting the new detection in front of the others
add_detection_AtFront(class_label) ==
  /\ pc = "idle"
  /\ IF current_image = None
     THEN UNCHANGED << detections, canvas_key >>
     ELSE /\ Len(detections) < MaxDetections
          /\ canvas_key < MaxCanvasKey
          /\ detections' = << [class_label |-> class_label,
                                rect |-> NewRect(Len(detections)),
                                annotator_reading |-> None] >> \o detections
          /\ canvas_key' = canvas_key + 1
  /\ pc' = "rerun"
  /\ notice' = ""
  /\ validation_errors' = << >>
  /\ UNCHANGED << source, store, current_reading, current_image, current_client,
                  image_load_error, PureIO, other_reading, both_offered >>
  /\ UNCHANGED LoadLocals

\* pages/1_Meter_Labelling.py:212-253, called by the + Water (0) and the
\* + Electricity (1) buttons, which go on with st.rerun() (334-342)
add_detection(class_label) ==
  /\ pc = "idle"
  /\ IF current_image = None
     THEN UNCHANGED << detections, canvas_key >>
     ELSE /\ Len(detections) < MaxDetections
          /\ canvas_key < MaxCanvasKey
          /\ detections' = Append(detections, [class_label |-> class_label,
                                                rect |-> NewRect(Len(detections)),
                                                annotator_reading |-> None])
          /\ canvas_key' = canvas_key + 1
  /\ pc' = "rerun"
  /\ notice' = ""
  /\ validation_errors' = << >>
  /\ UNCHANGED << source, store, current_reading, current_image, current_client,
                  image_load_error, PureIO, other_reading, both_offered >>
  /\ UNCHANGED LoadLocals

AddDetection == \E class_label \in {0, 1} : add_detection(class_label)

\* list.pop(index) for a 0-based index inside the list
Pop(list, index) ==
  [i \in 1..(Len(list) - 1) |-> IF i <= index THEN list[i] ELSE list[i + 1]]

\* remove_detection with the test index < len only: list.pop(-1) removes the
\* last detection
remove_detection_NoLowerTest(index) ==
  /\ pc = "idle"
  /\ IF index < Len(detections) /\ detections # << >>
     THEN /\ canvas_key < MaxCanvasKey
          /\ detections' = Pop(detections, IF index < 0 THEN Len(detections) + index ELSE index)
          /\ canvas_key' = canvas_key + 1
     ELSE UNCHANGED << detections, canvas_key >>
  /\ pc' = "rerun"
  /\ notice' = ""
  /\ validation_errors' = << >>
  /\ UNCHANGED << source, store, current_reading, current_image, current_client,
                  image_load_error, PureIO, other_reading, both_offered >>
  /\ UNCHANGED LoadLocals

\* pages/1_Meter_Labelling.py:256-266, called by the remove button of a
\* detection, which goes on with st.rerun() (385-387)
remove_detection(index) ==
  /\ pc = "idle"
  /\ IF 0 <= index /\ index < Len(detections)
     THEN /\ canvas_key < MaxCanvasKey
          /\ detections' = Pop(detections, index)
          /\ canvas_key' = canvas_key + 1
     ELSE UNCHANGED << detections, canvas_key >>
  /\ pc' = "rerun"
  /\ notice' = ""
  /\ validation_errors' = << >>
  /\ UNCHANGED << source, store, current_reading, current_image, current_client,
                  image_load_error, PureIO, other_reading, both_offered >>
  /\ UNCHANGED LoadLocals

RemoveDetection == \E index \in (-1)..MaxDetections : remove_detection(index)

\* pages/1_Meter_Labelling.py:375-377: the value a new number input shows,
\* reading_new_whole of the record or 0; the records of the model have none
DefaultReading == 0

\* a number the annotator types into a number input
TypedReading == 12

\* The values the number inputs hold when the script runs again: Streamlit
\* keeps the value of an input under its key "reading_{i}", so an input
\* shows the default or a number that was typed into an input before
\* (pages/1_Meter_Labelling.py:372-381)
WidgetValues ==
  {DefaultReading} \cup
  {detections[i].annotator_reading[1] :
     i \in {k \in 1..Len(detections) : detections[k].annotator_reading # None}}

\* pages/1_Meter_Labelling.py:360-382: the script run started by st.rerun()
\* draws one number input per detection and writes its value, as an int,
\* into the annotator_reading of the detection
Rerun ==
  /\ pc = "rerun"
  /\ \E reading_value \in [1..Len(detections) -> WidgetValues] :
       detections' = [i \in 1..Len(detections) |->
                        [detections[i] EXCEPT !.annotator_reading = Some(reading_value[i])]]
  /\ pc' = "idle"
  /\ UNCHANGED << source, store, current_reading, current_image, current_client,
                  image_load_error, canvas_key, notice, validation_errors, PureIO,
                  other_reading, both_offered >>
  /\ UNCHANGED LoadLocals

\* pages/1_Meter_Labelling.py:372-382: the annotator types a number into the
\* input of detection number index; the script runs again and line 382
\* writes it into the detection
EnterReading ==
  /\ pc = "idle"
  /\ ImageShown
  /\ \E index \in 1..Len(detections), reading_value \in {DefaultReading, TypedReading} :
       /\ detections[index].annotator_reading # Some(reading_value)
       /\ detections' = [detections EXCEPT ![index].annotator_reading = Some(reading_value)]
  /\ notice' = ""
  /\ validation_errors' = << >>
  /\ UNCHANGED << source, store, current_reading, current_image, current_client,
                  image_load_error, canvas_key, pc, PureIO, other_reading, both_offered >>
  /\ UNCHANGED LoadLocals

\* The boxes the annotator can turn a box of the canvas into (st_canvas in
\* transform mode, pages/1_Meter_Labelling.py:311-328): dragged off the
\* image, or shrunk to nothing
EditChoices ==
  { Rect(5000, 225, DEFAULT_RECT_SIZE, DEFAULT_RECT_SIZE, 0, 1, 1),
    Rect(325, 225, DEFAULT_RECT_SIZE, DEFAULT_RECT_SIZE, 0, 0, 0) }

\* pages/1_Meter_Labelling.py:311-328 with 217-221, 259-262 and 414-415:
\* the annotator transforms box number index on the canvas; the handlers
\* read the box from the canvas objects, so the rectangle of the detection
\* is kept equal to the one on the canvas
TransformBox ==
  /\ pc = "idle"
  /\ ImageShown
  /\ \E index \in 1..Len(detections), rect \in EditChoices :
       /\ detections[index].rect # rect
       /\ detections' = [detections EXCEPT ![index].rect = rect]
  /\ notice' = ""
  /\ validation_errors' = << >>
  /\ UNCHANGED << source, store, current_reading, current_image, current_client,
                  image_load_error, canvas_key, pc, PureIO, other_reading, both_offered >>
  /\ UNCHANGED LoadLocals

\* utils/models/annotation.py:15-19
CLASS_DISPLAY_NAMES == << "Cold Water", "Hot Water", "Electricity" >>

\* the validation loop leaving at the first invalid box
RECURSIVE ValidationErrors_FirstOnly(_, _)
ValidationErrors_FirstOnly(dets, i) ==
  IF i > Len(dets) THEN << >>
  ELSE LET checked == validate_bounding_box(dets[i].rect, img_width, img_height)
       IN IF checked[1] THEN ValidationErrors_FirstOnly(dets, i + 1)
          ELSE << [detection |-> i,
                   class_name |-> CLASS_DISPLAY_NAMES[dets[i].class_label + 1],
                   error_msg |-> checked[2]] >>

\* pages/1_Meter_Labelling.py:412-424: the list validation_errors after the
\* loop over the detections from the i-th on, one entry "Detection {i}
\* ({class_name}): {error_msg}" per invalid box (i counts from 1)
RECURSIVE ValidationErrors(_, _)
ValidationErrors(dets, i) ==
  IF i > Len(dets) THEN << >>
  ELSE LET checked == validate_bounding_box(dets[i].rect, img_width, img_height)
       IN IF checked[1] THEN ValidationErrors(dets, i + 1)
          ELSE << [detection |-> i,
                   class_name |-> CLASS_DISPLAY_NAMES[dets[i].class_label + 1],
                   error_msg |-> checked[2]] >> \o ValidationErrors(dets, i + 1)

\* pages/1_Meter_Labelling.py:411-428: some bounding box fails validation
SubmitBlocked ==
  /\ pc = "idle"
  /\ ImageShown
  /\ ValidationErrors(detections, 1) # << >>
  /\ validation_errors' = ValidationErrors(detections, 1)
  /\ notice' = "validation"
  /\ UNCHANGED << source, store, current_reading, current_image, current_client,
                  image_load_error, detections, canvas_key, pc, PureIO, other_reading, both_offered >>
  /\ UNCHANGED LoadLocals

\* state.username of the two sessions (pages/1_Meter_Labelling.py:30, 454)
username == "annotator_1"
other_username == "annotator_2"

\* the annotation built with the detections in reverse order
NewAnnotation_Reversed ==
  [source_client |-> current_client[1],
   source_reading_id |-> current_reading[1].reading_id,
   detections |->
     [i \in 1..Len(detections) |->
        LET detection == detections[Len(detections) + 1 - i]
        IN Detection(detection.class_label,
                     calculate_obb_from_fabric_object(detection.rect, img_width, img_height),
                     detection.annotator_reading)],
   annotated_by |-> username]

\* pages/1_Meter_Labelling.py:430-455
NewAnnotation ==
  [source_client |-> current_client[1],
   source_reading_id |-> current_reading[1].reading_id,
   detections |->
     [i \in 1..Len(detections) |->
        Detection(detections[i].class_label,
                  calculate_obb_from_fabric_object(detections[i].rect, img_width, img_height),
                  detections[i].annotator_reading)],
   annotated_by |-> username]

\* save_annotation refusing a second row for a (client, reading_id)
save_annotation_Unique(rows, annotation) ==
  IF << annotation.source_reading_id, annotation.source_client >> \in AnnotatedPairs(rows)
  THEN rows ELSE Append(rows, annotation)

\* save_annotation writing over the newest row
save_annotation_Replace(rows, annotation) ==
  IF rows = << >> THEN << annotation >> ELSE [rows EXCEPT ![Len(rows)] = annotation]

\* utils/database.py:94-117: one INSERT, committed
save_annotation(rows, annotation) == Append(rows, annotation)

\* the except branch dropping the detections
SubmitSaveFailed_DropsDetections ==
  /\ pc = "idle"
  /\ ImageShown
  /\ ValidationErrors(detections, 1) = << >>
  /\ notice' = "save_failed"
  /\ validation_errors' = << >>
  /\ detections' = << >>
  /\ UNCHANGED << source, store, current_reading, current_image, current_client,
                  image_load_error, canvas_key, pc, PureIO, other_reading, both_offered >>
  /\ UNCHANGED LoadLocals

\* pages/1_Meter_Labelling.py:457-464: save_annotation raises
SubmitSaveFailed ==
  /\ pc = "idle"
  /\ ImageShown
  /\ ValidationErrors(detections, 1) = << >>
  /\ notice' = "save_failed"
  /\ validation_errors' = << >>
  /\ UNCHANGED << source, store, current_reading, current_image, current_client,
                  image_load_error, detections, canvas_key, pc, PureIO, other_reading, both_offered >>
  /\ UNCHANGED LoadLocals

\* pages/1_Meter_Labelling.py:429-462: every box is valid, the annotation is
\* saved and the next image is loaded
SubmitSaved ==
  /\ pc = "idle"
  /\ ImageShown
  /\ ValidationErrors(detections, 1) = << >>
  /\ Len(store) < MaxStore
  /\ store' = save_annotation(store, NewAnnotation)
  /\ ResetForLoad
  /\ notice' = "saved"
  /\ validation_errors' = << >>
  /\ UNCHANGED << source, target_utility, failed_session, PureIO, other_reading, both_offered >>

\* pages/1_Meter_Labelling.py:466-469
SkipImage ==
  /\ pc = "idle"
  /\ ImageShown
  /\ ResetForLoad
  /\ notice' = ""
  /\ validation_errors' = << >>
  /\ UNCHANGED << source, store, target_utility, failed_session, PureIO, other_reading, both_offered >>

Next ==
  \/ LoadNewImage
  \/ LoadExhausted
  \/ LoadSkipFailed
  \/ LoadDownloadOk
  \/ LoadDownloadFail
  \/ LoadGiveUp
  \/ AddDetection
  \/ RemoveDetection
  \/ Rerun
  \/ TransformBox
  \/ SubmitBlocked
  \/ SubmitSaveFailed
  \/ SubmitSaved
  \/ SkipImage

Spec == Init /\ [][Next]_vars

\* ------------------------ the session with the history of failed downloads
\* The same session; failed_session records every (reading_id, client) whose
\* download failed, over all the load_new_image calls of the session
RetryInit ==
  /\ source \in SourceChoices
  /\ store \in InitStores(source)
  /\ SessionFields
  /\ failed_session = Some({})
  /\ sel_in = SelIdle
  /\ obb_in = ObbIdle
  /\ obb_out = None
  /\ valid_out = None
  /\ other_reading = None
  /\ both_offered = {}
  /\ dist_out = None
  /\ dist_prev = None

RetrySpec == RetryInit /\ [][Next]_vars

\* ----------------------------------------------- the selector on its own
\* select_target_utility_type applied to any counts and any draw
SelInit ==
  /\ source = SmallSource
  /\ store = << >>
  /\ SessionInit
  /\ sel_in \in [water_count : 0..MaxCount, electricity_count : 0..MaxCount,
                 k : 0..(RandSteps - 1)]
  /\ obb_in = ObbIdle
  /\ obb_out = None
  /\ valid_out = None
  /\ other_reading = None
  /\ both_offered = {}
  /\ dist_out = None
  /\ dist_prev = None

SelectTarget ==
  /\ target_utility = None
  /\ target_utility' =
       Some(select_target_utility_type(sel_in.water_count, sel_in.electricity_count, sel_in.k))
  /\ UNCHANGED << source, store, current_reading, current_image, current_client,
                  image_load_error, detections, canvas_key, notice,
                  validation_errors, pc, attempt, failed_readings, result,
                  n_downloads, failed_session, PureIO, other_reading, both_offered >>

SelNext == SelectTarget

SelSpec == SelInit /\ [][SelNext]_vars

\* ----------------------------------------------- the geometry on its own
\* calculate_obb_from_fabric_object and validate_bounding_box applied to
\* rectangles on, across and far off a canvas
LeftChoices == {-2000, 0, 325, 5000}
TopChoices == {-2000, 225, 5000}
WidthChoices == {0, MIN_BOX_SIZE, MIN_BOX_SIZE + 1, DEFAULT_RECT_SIZE}
HeightChoices == {MIN_BOX_SIZE, MIN_BOX_SIZE + 1, DEFAULT_RECT_SIZE}
AngleChoices == {0, 45, 90, 180, 270, 360}
CanvasChoices == {<< CANVAS_WIDTH, CANVAS_HEIGHT >>, << 450, CANVAS_HEIGHT >>}

ObbInputs ==
  {[rect |-> Rect(left, top, width, height, angle, scaleX, scaleY),
    canvas_width |-> canvas[1], canvas_height |-> canvas[2]] :
     left \in LeftChoices, top \in TopChoices, width \in WidthChoices,
     height \in HeightChoices, angle \in AngleChoices,
     scaleX \in 0..MaxScale, scaleY \in 1..MaxScale, canvas \in CanvasChoices}

ObbInit ==
  /\ source = SmallSource
  /\ store = << >>
  /\ SessionInit
  /\ sel_in = SelIdle
  /\ obb_in \in ObbInputs
  /\ obb_out = None
  /\ valid_out = None
  /\ other_reading = None
  /\ both_offered = {}
  /\ dist_out = None
  /\ dist_prev = None

SessionVars == << source, store, current_reading, current_image, current_client,
                  image_load_error, detections, canvas_key, notice,
                  validation_errors, pc >>

ComputeObb ==
  /\ obb_out = None
  /\ obb_out' = Some(calculate_obb_from_fabric_object(obb_in.rect, obb_in.canvas_width,
                                                      obb_in.canvas_height))
  /\ UNCHANGED << sel_in, obb_in, valid_out, other_reading, both_offered, dist_out, dist_prev >>
  /\ UNCHANGED SessionVars
  /\ UNCHANGED LoadLocals

ValidateBox ==
  /\ valid_out = None
  /\ valid_out' = Some(validate_bounding_box(obb_in.rect, obb_in.canvas_width,
                                             obb_in.canvas_height))
  /\ UNCHANGED << sel_in, obb_in, obb_out, other_reading, both_offered, dist_out, dist_prev >>
  /\ UNCHANGED SessionVars
  /\ UNCHANGED LoadLocals

ObbNext == ComputeObb \/ ValidateBox

ObbSpec == ObbInit /\ [][ObbNext]_vars

\* ------------------------------------- two sessions on one label store
\* The second annotator's session runs the same page; of its state only the
\* record it shows is kept, and its detection list is empty.
\* Its load_new_image (Load, Skip or the load after a save): one
\* fetch_random_reading on the store as it is now, the download succeeding
OtherLoads ==
  /\ \E call \in FetchCalls(store) :
       /\ other_reading' = IF call[2] = None THEN None ELSE Some(Key(call[2][1]))
       /\ both_offered' =
            IF /\ call[2] # None
               /\ current_image = Some(Key(call[2][1]))
               /\ Key(call[2][1]) \notin AnnotatedPairs(store)
            THEN both_offered \cup {Key(call[2][1])}
            ELSE both_offered
  /\ UNCHANGED << sel_in, obb_in, obb_out, valid_out, dist_out, dist_prev >>
  /\ UNCHANGED SessionVars
  /\ UNCHANGED LoadLocals

\* Its submit handler: the annotation of the record it shows is saved, then
\* load_new_image clears the record (pages/1_Meter_Labelling.py:449-462, 166)
OtherSubmits ==
  /\ other_reading # None
  /\ Len(store) < MaxStore
  /\ store' = save_annotation(store, StoredRow(other_reading[1][2], other_reading[1][1],
                                               << >>, other_username))
  /\ other_reading' = None
  /\ UNCHANGED << source, current_reading, current_image, current_client,
                  image_load_error, detections, canvas_key, notice, validation_errors,
                  pc, PureIO, both_offered >>
  /\ UNCHANGED LoadLocals

TwoInit ==
  /\ source = SmallSource
  /\ store = << >>
  /\ SessionInit
  /\ sel_in = SelIdle
  /\ obb_in = ObbIdle
  /\ obb_out = None
  /\ valid_out = None
  /\ other_reading = None
  /\ both_offered = {}
  /\ dist_out = None
  /\ dist_prev = None

TwoNext == Next \/ OtherLoads \/ OtherSubmits

TwoSpec == TwoInit /\ [][TwoNext]_vars

\* ------------------------------- one session whose annotator types readings
SessionTypedInit ==
  /\ source = SmallSource
  /\ store = << >>
  /\ SessionInit
  /\ sel_in = SelIdle
  /\ obb_in = ObbIdle
  /\ obb_out = None
  /\ valid_out = None
  /\ other_reading = None
  /\ both_offered = {}
  /\ dist_out = None
  /\ dist_prev = None

SessionTypedNext == Next \/ EnterReading

SessionTypedSpec == SessionTypedInit /\ [][SessionTypedNext]_vars

\* ------------------------------------ the distribution tracker on its own
\* The rows in the orders a SELECT without ORDER BY may deliver them
\* (utils/database.py:52-53)
FetchAll(rows) ==
  {[i \in 1..Len(rows) |-> rows[p[i]]] : p \in Permutations(1..Len(rows))}

\* annotations another submission may add between two calls
TrackerRows ==
  {StoredRow("Huurkor", 4, dets, username) :
     dets \in {<< >>, << Detection(1, DefaultObb, Some(0)) >>,
               << Detection(0, DefaultObb, Some(0)), Detection(1, DefaultObb, Some(0)) >>}}

TrackerInit ==
  /\ source = LargeSource
  /\ store \in InitStores(LargeSource)
  /\ SessionInit
  /\ sel_in = SelIdle
  /\ obb_in = ObbIdle
  /\ obb_out = None
  /\ valid_out = None
  /\ other_reading = None
  /\ both_offered = {}
  /\ dist_out = None
  /\ dist_prev = None

\* One call of get_class_distribution(): a SELECT over the annotations and a
\* count, no INSERT, UPDATE or DELETE (utils/database.py:46-76)
CallDistribution ==
  /\ \E fetched \in FetchAll(store) :
       dist_out' = Some([rows |-> store, value |-> get_class_distribution(fetched)])
  /\ dist_prev' = dist_out
  /\ UNCHANGED << sel_in, obb_in, obb_out, valid_out, other_reading, both_offered >>
  /\ UNCHANGED SessionVars
  /\ UNCHANGED LoadLocals

\* A submission between two calls (utils/database.py:94-117)
TrackerSaves ==
  /\ Len(store) < MaxStore
  /\ \E annotation \in TrackerRows : store' = save_annotation(store, annotation)
  /\ UNCHANGED << source, current_reading, current_image, current_client,
                  image_load_error, detections, canvas_key, notice, validation_errors,
                  pc, PureIO, other_reading, both_offered >>
  /\ UNCHANGED LoadLocals

TrackerNext == CallDistribution \/ TrackerSaves

TrackerSpec == TrackerInit /\ [][TrackerNext]_vars

\* ------------------------------------------------------------------ claims
NoMoreImages == Some("No more images available to annotate.")
FailedToLoad == Some("Failed to load image after 5 attempts.")

\* the latest fetch_random_reading() of the running or the last call
\* returned a (reading, client_name) pair
Returned == result # << >> /\ result[1] # None
ReturnedPair == result[1][1]

\* source rows with an image that have no annotation in the label store
Unannotated ==
  {r \in source : r.has_file /\ << r.reading_id, r.client >> \notin AnnotatedPairs(store)}

\* number of stored annotations without a detection
NoMeterAnnotations ==
  Cardinality({i \in 1..Len(store) : store[i].detections = << >>})

\* number of stored detections with the given class label
DetectionsOfClass(class_label) ==
  Cardinality({p \in (1..Len(store)) \X (1..MaxDetections) :
                 /\ p[2] <= Len(store[p[1]].detections)
                 /\ store[p[1]].detections[p[2]].class_label = class_label})

\* C1: fetch_random_reading never returns a (reading, client) whose
\* (client, reading_id) already has an annotation in the label store at the
\* time of the call, however many annotations the client has.
C1_NeverReturnsAnnotated ==
  Returned => Key(ReturnedPair) \notin AnnotatedPairs(store)

\* C2: once the download of a record has failed in this session, no later
\* attempt of the session, in the same or in a later load_new_image call,
\* downloads that record again.
C2_FailedNeverRetried ==
  [][(LoadDownloadOk \/ LoadDownloadFail) =>
       (failed_session # None => Key(result'[1][1]) \notin failed_session[1])]_vars

\* C3: when there is at least one label and some class has a positive
\* deficit, the selector returns a class whose target ratio exceeds its
\* current proportion, whatever the draw; with water 7 and electricity 0 it
\* returns electricity.
C3_SelectsPositiveDeficit ==
  LET w == sel_in.water_count
      e == sel_in.electricity_count
      below(u) == IF u = "water" THEN 70 * (w + e) > 100 * w ELSE 30 * (w + e) > 100 * e
  IN target_utility # None =>
       /\ (w + e > 0 /\ (below("water") \/ below("electricity"))) => below(target_utility[1])
       /\ (w = 7 /\ e = 0) => target_utility[1] = "electricity"

C3_Witness ==
  /\ sel_in.water_count = 7
  /\ sel_in.electricity_count = 0
  /\ sel_in.k = 0
  /\ target_utility = Some("electricity")

C5_FailedAfterFiveDownloads ==
  image_load_error = FailedToLoad =>
    /\ n_downloads = max_attempts
    /\ Cardinality(failed_readings) = max_attempts

\* C6: a call of load_new_image makes at most 5 selection attempts and ends
\* in exactly one of three outcomes: a record, its client and its image set
\* without an error, the record being the one whose download succeeded; the
\* error of exhaustion; or the error of the failed attempts.
C6_Success ==
  /\ image_load_error = None
  /\ Returned
  /\ current_reading = Some(ReturnedPair[1])
  /\ current_client = Some(ReturnedPair[2])
  /\ current_image = Some(Key(ReturnedPair))

C6_Exhausted ==
  /\ image_load_error = NoMoreImages
  /\ current_reading = None /\ current_image = None /\ current_client = None

C6_Failed ==
  /\ image_load_error = FailedToLoad
  /\ attempt = max_attempts
  /\ current_reading = None /\ current_image = None /\ current_client = None

C6_BoundedThreeOutcomes ==
  /\ attempt <= max_attempts
  /\ (pc # "loading" /\ result # << >>) => (C6_Success \/ C6_Exhausted \/ C6_Failed)
  /\ (pc = "loading") =>
       (image_load_error = None /\ current_reading = None /\ current_image = None)

C6_Witness ==
  /\ pc = "idle"
  /\ C6_Success
  /\ notice = "saved"

C8_NoneOnlyWhenNoImageLeft ==
  (result # << >> /\ result[1] = None) => Unannotated = {}

\* C8, amended: fetch_random_reading returns None only when no source holds
\* an un-annotated record with an image whose meter is a cold water, hot
\* water or electricity meter.
C8_NoneOnlyWhenClassesExhausted ==
  (result # << >> /\ result[1] = None) =>
    \A r \in Unannotated : r.utility_type \notin {"cold_water", "hot_water", "electricity"}

C8_Witness ==
  /\ result = Some(None)
  /\ store # << >>
  /\ \A r \in Unannotated : r.utility_type \notin {"cold_water", "hot_water", "electricity"}

\* C9: get_class_distribution returns no_meter_count equal to the number of
\* annotations without detections and, for water (label 0) and electricity
\* (label 1), the number of stored detections of that class.
C9_CountsPerClass ==
  LET d == get_class_distribution(store)
  IN /\ d.no_meter_count = NoMeterAnnotations
     /\ d.cold_water_count + d.hot_water_count = DetectionsOfClass(0)
     /\ d.electricity_count = DetectionsOfClass(1)

\* C10: total_images of the distribution returned by get_class_distribution
\* is the sum of the per-class detection counts of the store plus the number
\* of no-meter annotations.
C10_TotalImages ==
  total_images(get_class_distribution(store))
    = DetectionsOfClass(0) + DetectionsOfClass(1) + NoMeterAnnotations

\* the rectangle handed to the geometry and its pixel corners over Unit
InRect == obb_in.rect
InCorners ==
  PixelCorners(InRect.left, InRect.top, InRect.width, InRect.height, InRect.angle,
               InRect.scaleX, InRect.scaleY)
OutCorners ==
  << << obb_out[1].x1, obb_out[1].y1 >>, << obb_out[1].x2, obb_out[1].y2 >>,
     << obb_out[1].x3, obb_out[1].y3 >>, << obb_out[1].x4, obb_out[1].y4 >> >>

\* the fraction c = << numerator, denominator >> equals n / d; every
\* coordinate over a canvas size d is returned with the denominator Unit * d
FracEq(c, n, d) == c[2] = Unit * d /\ c[1] = Unit * n

\* the fraction c equals n / size clamped to [0, 1]
FracEqClamped(c, n, size) ==
  IF n <= 0 THEN c[1] = 0
  ELSE IF n >= size THEN c[1] = c[2]
  ELSE FracEq(c, n, size)

\* C11: for every rectangle, also one far outside the canvas, and every
\* canvas size greater than zero, each of the eight coordinates returned by
\* calculate_obb_from_canvas lies in [0, 1].
C11_CoordinatesInUnitRange ==
  obb_out # None =>
    \A f \in {"x1", "y1", "x2", "y2", "x3", "y3", "x4", "y4"} :
      LET c == obb_out[1][f]
      IN c[2] > 0 /\ 0 <= c[1] /\ c[1] <= c[2]

C11_Witness ==
  /\ obb_out # None
  /\ InRect.left = 5000 /\ InRect.top = -2000
  /\ InRect.width * InRect.scaleX > 0
  /\ \A i \in 1..4 : OutCorners[i][1][1] = OutCorners[i][1][2] /\ OutCorners[i][2][1] = 0

Sign(n) == IF n > 0 THEN 1 ELSE IF n < 0 THEN -1 ELSE 0
Direction(from, to) == << Sign(to[1] - from[1]), Sign(to[2] - from[2]) >>

\* where the un-rotated rectangle's right and down directions point after a
\* clockwise rotation on a canvas whose y axis points down
RotatedRight(angle) ==
  CASE angle = 0 -> << 1, 0 >> [] angle = 45 -> << 1, 1 >> [] angle = 90 -> << 0, 1 >>
    [] angle = 180 -> << -1, 0 >> [] angle = 270 -> << 0, -1 >>
RotatedDown(angle) ==
  CASE angle = 0 -> << 0, 1 >> [] angle = 45 -> << -1, 1 >> [] angle = 90 -> << -1, 0 >>
    [] angle = 180 -> << 0, -1 >> [] angle = 270 -> << 1, 0 >>

\* sign of the turn from direction a to direction b; negative is
\* counter-clockwise on the canvas
Turn(a, b) == Sign(a[1] * b[2] - a[2] * b[1])

\* no coordinate of the returned box was clamped
Unclamped ==
  \A i \in 1..4 :
    /\ 0 <= InCorners[i][1] /\ InCorners[i][1] <= Unit * obb_in.canvas_width
    /\ 0 <= InCorners[i][2] /\ InCorners[i][2] <= Unit * obb_in.canvas_height

\* C12: for angle in {0, 45, 90, 180, 270} and a box with an area, the
\* corners are emitted in the order top-left, bottom-left, bottom-right,
\* top-right of the un-rotated rectangle: corner 1 is the rotated top-left
\* corner (the point (left, top) the box turns about), corner 2 lies in the
\* rotated down direction from it, corner 4 in the rotated right direction,
\* corner 3 is opposite to corner 1, and the turn from corner 2 to corner 4
\* is counter-clockwise at every angle; a box inside the canvas is returned
\* with these directions.
C12_CornerOrder ==
  (/\ obb_out # None
   /\ InRect.angle \in {0, 45, 90, 180, 270}
   /\ InRect.width * InRect.scaleX > 0
   /\ InRect.height * InRect.scaleY > 0) =>
    LET p == InCorners
        q == [i \in 1..4 |-> << OutCorners[i][1][1], OutCorners[i][2][1] >>]
    IN /\ p[1] = << InRect.left * Unit, InRect.top * Unit >>
       /\ Direction(p[1], p[2]) = RotatedDown(InRect.angle)
       /\ Direction(p[1], p[4]) = RotatedRight(InRect.angle)
       /\ Direction(p[2], p[3]) = RotatedRight(InRect.angle)
       /\ Direction(p[4], p[3]) = RotatedDown(InRect.angle)
       /\ Turn(Direction(p[1], p[2]), Direction(p[1], p[4])) = -1
       /\ Unclamped =>
            /\ \A i \in 1..4 : OutCorners[i][1][1] = p[i][1] /\ OutCorners[i][2][1] = p[i][2]
            /\ Direction(q[1], q[2]) = RotatedDown(InRect.angle)
            /\ Direction(q[1], q[4]) = RotatedRight(InRect.angle)
            /\ Turn(Direction(q[1], q[2]), Direction(q[1], q[4])) = -1

C12_Witness ==
  /\ obb_out # None
  /\ InRect.angle = 45
  /\ InRect.width * InRect.scaleX > 0
  /\ Unclamped
  /\ OutCorners[2][1][1] < OutCorners[1][1][1]
  /\ OutCorners[2][2][1] > OutCorners[1][2][1]
  /\ OutCorners[4][1][1] > OutCorners[1][1][1]

\* the effective size of the rectangle handed to the geometry
InW == InRect.width * InRect.scaleX
InH == InRect.height * InRect.scaleY

CenterOutside ==
  LET sum_x == InCorners[1][1] + InCorners[2][1] + InCorners[3][1] + InCorners[4][1]
      sum_y == InCorners[1][2] + InCorners[2][2] + InCorners[3][2] + InCorners[4][2]
  IN \/ sum_x < 0 \/ sum_x > 4 * Unit * obb_in.canvas_width
     \/ sum_y < 0 \/ sum_y > 4 * Unit * obb_in.canvas_height

\* C15: validate_bounding_box returns (False, reason) for every rectangle
\* whose effective width or effective height does not exceed the minimum
\* pixel threshold or whose center lies outside the canvas, and (True, ...)
\* for a rectangle above the threshold that lies inside the canvas.
C15_ValidateBoundingBox ==
  valid_out # None =>
    /\ (InW <= MIN_BOX_SIZE \/ InH <= MIN_BOX_SIZE \/ CenterOutside) =>
         (valid_out[1][1] = FALSE /\ valid_out[1][2] # "")
    /\ (InW > MIN_BOX_SIZE /\ InH > MIN_BOX_SIZE /\ Unclamped) => valid_out[1][1] = TRUE

C15_Witness ==
  /\ valid_out = Some(<< TRUE, "" >>)
  /\ InW = MIN_BOX_SIZE + 1 /\ InH = MIN_BOX_SIZE + 1
  /\ InRect.angle = 45
  /\ Unclamped

\* C20: with zero labels in total, and also with labels of which no class
\* has a positive deficit, select_target_utility_type returns water exactly
\* when the draw r = k / RandSteps is below 0.70 and electricity otherwise.
C20_SamplesTargetRatios ==
  LET w == sel_in.water_count
      e == sel_in.electricity_count
      none_below == 70 * (w + e) <= 100 * w /\ 30 * (w + e) <= 100 * e
  IN (target_utility # None /\ (w + e = 0 \/ none_below)) =>
       /\ target_utility[1] \in {"water", "electricity"}
       /\ target_utility[1] = "water" <=> sel_in.k * 10 < 7 * RandSteps

C20_Witness ==
  /\ sel_in.water_count = 7
  /\ sel_in.electricity_count = 3
  /\ sel_in.k * 10 >= 7 * RandSteps
  /\ target_utility = Some("electricity")

\* detections of the session whose bounding box fails validation
InvalidDetections ==
  {i \in 1..Len(detections) :
     ~validate_bounding_box(detections[i].rect, img_width, img_height)[1]}

\* C14: when a submission (a step of the submit handler: it ends with one of
\* the handler's three reports) holds at least one detection whose bounding
\* box fails validation, nothing is written to the label store, the errors shown
\* are one per failing detection, in order, each naming its detection and a
\* reason, and the current record, image, client and detections stay.
C14_BlockedSubmission ==
  [][(/\ pc = "idle" /\ current_reading # None /\ current_image # None
      /\ notice' \in {"validation", "save_failed", "saved"}
      /\ InvalidDetections # {}) =>
       /\ store' = store
       /\ current_reading' = current_reading
       /\ current_image' = current_image
       /\ current_client' = current_client
       /\ detections' = detections
       /\ pc' = "idle"
       /\ Len(validation_errors') = Cardinality(InvalidDetections)
       /\ \A n \in 1..Len(validation_errors') :
            /\ validation_errors'[n].detection \in InvalidDetections
            /\ validation_errors'[n].error_msg # ""
            /\ \A m \in 1..(n - 1) :
                 validation_errors'[m].detection < validation_errors'[n].detection]_vars

C14_Witness ==
  /\ notice = "validation"
  /\ Len(detections) = 2
  /\ Len(validation_errors) = 2
  /\ validation_errors[1].detection = 1
  /\ validation_errors[2].detection = 2
  /\ validation_errors[1].error_msg # validation_errors[2].error_msg
  /\ current_reading # None /\ current_image # None

\* C16: when save_annotation fails during a submission, current_reading,
\* current_image, current_client, the detections and the label store are as
\* before, no load of a next image starts, the save error is reported, and
\* the submit button can be used again on the same image.
C16_SaveFailureKeepsState ==
  [][notice' = "save_failed" =>
       /\ current_reading' = current_reading
       /\ current_image' = current_image
       /\ current_client' = current_client
       /\ detections' = detections
       /\ store' = store
       /\ canvas_key' = canvas_key
       /\ image_load_error' = image_load_error
       /\ pc' = "idle"
       /\ current_reading' # None /\ current_image' # None
       /\ ValidationErrors(detections', 1) = << >>]_vars

C16_Witness ==
  /\ notice = "save_failed"
  /\ detections # << >>
  /\ current_reading # None /\ current_image # None
  /\ pc = "idle"

\* C17: the label store is append-only: a step changes it only by a
\* submission whose boxes are all valid and whose save succeeds, which adds
\* exactly one annotation at the end and keeps every earlier row; the steps
\* of load_new_image (from the Load button, from Skip, and its retry loop),
\* add_detection, remove_detection, a box transformed on the canvas, a
\* blocked submission and a failed save leave it unchanged.
C17_AppendOnly ==
  [][/\ store' # store =>
          /\ pc = "idle" /\ ImageShown /\ InvalidDetections = {}
          /\ notice' = "saved"
          /\ Len(store') = Len(store) + 1
          /\ SubSeq(store', 1, Len(store)) = store
          /\ store'[Len(store')].source_client = current_client[1]
          /\ store'[Len(store')].source_reading_id = current_reading[1].reading_id
     /\ (\/ pc = "loading"
         \/ notice' # "saved"
         \/ detections' # << >>
         \/ InvalidDetections # {}) => store' = store]_vars

C17_Witness ==
  /\ notice = "saved"
  /\ Len(store) = 3
  /\ SubSeq(store, 1, 2) = SubSeq(LegacyRows, 1, 2)

\* C18: submitting the current image with an empty detection list stores
\* exactly one annotation, with an empty detections list, for the current
\* (client, reading_id); get_class_distribution then shows no_meter_count
\* increased by one and every per-class count unchanged.
C18_NoMeterSubmission ==
  [][(pc = "idle" /\ detections = << >> /\ store' # store) =>
       LET before == get_class_distribution(store)
           after == get_class_distribution(store')
       IN /\ store' = Append(store, [source_client |-> current_client[1],
                                     source_reading_id |-> current_reading[1].reading_id,
                                     detections |-> << >>,
                                     annotated_by |-> username])
          /\ after.no_meter_count = before.no_meter_count + 1
          /\ after.cold_water_count = before.cold_water_count
          /\ after.hot_water_count = before.hot_water_count
          /\ after.electricity_count = before.electricity_count
          /\ CountClasses(store').water_count = CountClasses(store).water_count
          /\ CountClasses(store').electricity_count = CountClasses(store).electricity_count]_vars

C18_Witness ==
  /\ notice = "saved"
  /\ store # << >>
  /\ store[Len(store)].detections = << >>
  /\ get_class_distribution(store).no_meter_count = 1
  /\ get_class_distribution(store).electricity_count = 1

\* (reading_id, client) with two rows in the label store
Duplicates ==
  {<< store[i].source_reading_id, store[i].source_client >> :
     i \in {k \in 1..Len(store) :
              \E j \in 1..Len(store) :
                /\ j # k
                /\ store[j].source_reading_id = store[k].source_reading_id
                /\ store[j].source_client = store[k].source_client}}

\* C19: with two sessions on one label store the exclusion check is a read
\* at fetch time and the save is a write without a check: a saved submission
\* of either session always adds its row, also for a (client, reading_id)
\* that has a row already; so a record that both sessions were offered while
\* it had no annotation gets an annotation from each, and only such a record
\* gets two.
C19_DuplicateLabelling ==
  /\ [](Duplicates \subseteq both_offered)
  /\ [][/\ SubmitSaved =>
             /\ Len(store') = Len(store) + 1
             /\ store'[Len(store')].source_reading_id = current_reading[1].reading_id
             /\ store'[Len(store')].source_client = current_client[1]
        /\ OtherSubmits =>
             /\ Len(store') = Len(store) + 1
             /\ store'[Len(store')].source_reading_id = other_reading[1][1]
             /\ store'[Len(store')].source_client = other_reading[1][2]]_vars

C19_Witness ==
  \E i, j \in 1..Len(store) :
    /\ i < j
    /\ store[i].source_reading_id = store[j].source_reading_id
    /\ store[i].source_client = store[j].source_client
    /\ store[i].annotated_by # store[j].annotated_by
    /\ << store[i].source_reading_id, store[i].source_client >> \in both_offered

C22_NoSecondDownload ==
  /\ [](pc = "loading" => n_downloads = Cardinality(failed_readings))
  /\ [][(/\ InLoop
          /\ result' # << >>
          /\ result'[1] # None
          /\ Key(result'[1][1]) \in failed_readings)
         => /\ n_downloads' = n_downloads
            /\ failed_readings' = failed_readings
            /\ current_image' = None
            /\ image_load_error' = None
            /\ pc' = "loading"
            /\ attempt' = attempt + 1]_vars

\* a call that used its 5 attempts on 2 failed downloads and 3 skipped
\* candidates, the last of them a skipped one
C22_Witness ==
  /\ pc = "loading"
  /\ attempt = max_attempts
  /\ n_downloads = 2
  /\ Cardinality(failed_readings) = 2
  /\ Returned
  /\ Key(ReturnedPair) \in failed_readings

\* C23: after any sequence of Load, Skip, Submit, add_detection and
\* remove_detection the session state is consistent: current_reading,
\* current_image and current_client are all set, to the reading, the image
\* and the client of one fetched record of the source, or all None; whenever
\* image_load_error is set all three are None; and during and at the end
\* of every load_new_image, whatever its outcome, the detection list is empty.
C23_SessionConsistent ==
  /\ [](\/ current_reading = None /\ current_image = None /\ current_client = None
        \/ /\ current_reading # None /\ current_image # None /\ current_client # None
           /\ \E r \in source : /\ r.client = current_client[1]
                                /\ r.reading_id = current_reading[1].reading_id
                                /\ r.has_file
           /\ current_image[1] = << current_reading[1].reading_id, current_client[1] >>)
  /\ [](image_load_error # None
          => current_reading = None /\ current_image = None /\ current_client = None)
  /\ [](pc = "loading" => detections = << >>)
  /\ [][(pc = "loading" /\ pc' = "idle") => detections' = << >>]_vars

\* a detection was added and submitted, and the load_new_image of the
\* submit handler ended with an error: nothing is shown, the list is empty
C23_Witness ==
  /\ pc = "idle"
  /\ notice = "saved"
  /\ image_load_error # None
  /\ current_reading = None
  /\ detections = << >>
  /\ store # << >>
  /\ store[Len(store)].annotated_by = username
  /\ store[Len(store)].detections # << >>

\* what the claims compare of a detection, in the session or in the store
Labelled(dets) ==
  [i \in 1..Len(dets) |-> << dets[i].class_label, dets[i].annotator_reading >>]
ClassLabels(dets) == [i \in 1..Len(dets) |-> dets[i].class_label]

\* C24: a successful submission (the step that changes the store, or that
\* ends with the toast and a started load_new_image) appends exactly one
\* annotation to the store; that annotation carries the client and the
\* reading_id of the image on display and one detection per session
\* detection, in the same order, with the same class labels and annotator
\* readings; and load_new_image has been started for the next image.
C24_StoredAsShown ==
  [][(store' # store \/ (pc = "idle" /\ pc' = "loading" /\ notice' = "saved"))
     => /\ ImageShown
        /\ Len(store') = Len(store) + 1
        /\ SubSeq(store', 1, Len(store)) = store
        /\ LET annotation == store'[Len(store')]
           IN /\ annotation.source_client = current_client[1]
              /\ annotation.source_reading_id = current_reading[1].reading_id
              /\ << annotation.source_reading_id, annotation.source_client >> = current_image[1]
              /\ Len(annotation.detections) = Len(detections)
              /\ Labelled(annotation.detections) = Labelled(detections)
        /\ pc' = "loading"
        /\ current_image' = None
        /\ detections' = << >>
        /\ canvas_key' = canvas_key + 1]_vars

\* an annotation of two detections, water with a typed reading first and
\* electricity with the default reading second, was saved and the next
\* image is on display
C24_Witness ==
  /\ pc = "idle"
  /\ notice = "saved"
  /\ ImageShown
  /\ store # << >>
  /\ store[Len(store)].annotated_by = username
  /\ Labelled(store[Len(store)].detections)
       = << << 0, Some(TypedReading) >>, << 1, Some(DefaultReading) >> >>
  /\ << store[Len(store)].source_reading_id, store[Len(store)].source_client >>
       # current_image[1]

\* C25: add_detection with any class label changes nothing when no image is
\* loaded; otherwise the list is one longer, its last detection has the
\* given class label, angle 0, scale 1 and annotator_reading None, canvas_key
\* is one higher, and the earlier detections keep their class labels (and
\* readings) and their order.
C25_AddDetectionAppends ==
  [][\A class_label \in {0, 1} :
       add_detection(class_label) =>
         IF current_image = None
         THEN UNCHANGED << detections, canvas_key, current_reading, current_image,
                           current_client, image_load_error, store >>
         ELSE /\ Len(detections') = Len(detections) + 1
              /\ LET added == detections'[Len(detections')]
                 IN /\ added.class_label = class_label
                    /\ added.rect.angle = 0
                    /\ added.rect.scaleX = 1
                    /\ added.rect.scaleY = 1
                    /\ added.annotator_reading = None
              /\ Labelled(SubSeq(detections', 1, Len(detections))) = Labelled(detections)
              /\ canvas_key' = canvas_key + 1]_vars

\* add_detection has just added an electricity detection behind a water
\* detection whose reading was typed
C25_Witness ==
  /\ pc = "rerun"
  /\ ImageShown
  /\ Len(detections) = 2
  /\ Labelled(detections) = << << 0, Some(TypedReading) >>, << 1, None >> >>
  /\ detections[2].rect = NewRect(1)

====
